---------------------------- MODULE Spec2Model ----------------------------
(***************************************************************************)
(* A model of the library circulation store: the shelves, books, students  *)
(* and loans tables with their CHECK constraints, indexes and trigger      *)
(* functions (src/database/tables), the repository and table-manager       *)
(* methods that issue statements against them (src/database/repositories,  *)
(* src/database/tables), and the connection through which every statement  *)
(* runs (src/database/connection/database_connection.py).                  *)
(*                                                                         *)
(* The committed tables are the variables shelves, books, students, loans. *)
(* A connection holds the rows its open transaction has written and not    *)
(* yet committed (conn[c].w): execute_command commits after its            *)
(* statement, execute_query never does, and nothing ever rolls back, so a  *)
(* statement the database rejects leaves the connection in a failed        *)
(* transaction (its uncommitted rows are gone, every later statement       *)
(* raises) until disconnect.                                               *)
(***************************************************************************)
EXTENDS Integers, Sequences, FiniteSets, TLC

\* ------------------------------------------------------------------ bounds
NumShelves == 2
NumBooks == 2
NumStudents == 2
MaxLoans == 2
MaxCap == 2
MaxDay == 1

\* ------------------------------------------------------- program constants
max_loans == 5
default_loan_days == 14
digital_loan_days == 7
max_loan_period == 365

Shelves == 1..NumShelves
Books == 1..NumBooks
Students == 1..NumStudents
LoanIds == 1..MaxLoans
\* One shelf id for which the shelves table holds no row.
UnknownShelf == NumShelves + 1
ShelfArgs == Shelves \cup {UnknownShelf}
\* SQL NULL for shelf_id, estimated_return_date and actual_return_date.
NULL == 0
\* Two client connections (two DatabaseConnection objects of a ConnectionPool).
Conns == {"A", "B"}

BookTypes == {"physical", "digital"}
BookStatuses == {"available", "loaned", "maintenance", "lost"}
LoanStatuses == {"active", "returned", "overdue", "lost"}
OpenLoan == {"active", "overdue"}
StudentStatuses == {"active", "inactive", "graduated"}

VARIABLES
    shelves,    \* committed shelves rows: shelf_id -> [cap, cnt]
    books,      \* committed books rows: book_id -> [ex, btype, shelf, status]
    students,   \* committed students rows: student_id -> status
    loans,      \* committed loans rows: loan_id -> [ex, book, student, status, ...]
    today,      \* CURRENT_DATE / date.today()
    conn,       \* per connection: transaction state and uncommitted rows
    call,       \* per connection: the statement in progress (stepwise operations)
    last        \* the call that returned last: operation, result, error raised

vars == <<shelves, books, students, loans, today, conn, call, last>>

NoBook == [ex |-> FALSE, btype |-> "digital", shelf |-> NULL, status |-> "available"]
NoLoan == [ex |-> FALSE, book |-> 0, student |-> 0, status |-> "returned",
           loan_date |-> 0, est |-> NULL, ret |-> NULL, renewals |-> 0]

\* ------------------------------------------------------- views of the data
EmptyW == [k \in {} |-> 0]
NoWrites == [sh |-> EmptyW, bk |-> EmptyW, ln |-> EmptyW]
\* A call in progress on a connection, for the calls followed statement step
\* by statement step: where it stands (pc), the method (op), its book and its
\* other argument (a student, a shelf), the update_shelf_book_count calls still
\* to make and the new_count the current one has read; res is the result of
\* the last such call once it has returned.
IdleCall == [pc |-> "idle", op |-> "none", res |-> "none", book |-> 0, arg |-> 0,
             calls |-> <<>>, new_count |-> 0]
Issued(op, b, arg) == [IdleCall EXCEPT !.pc = "issued", !.op = op, !.book = b, !.arg = arg]
Finished(k, ok) == [k EXCEPT !.pc = "idle", !.res = IF ok THEN "ok" ELSE "failed",
                             !.calls = <<>>, !.new_count = 0]

Over(base, w) == [k \in DOMAIN base |-> IF k \in DOMAIN w THEN w[k] ELSE base[k]]

\* The committed database.
DB == [sh |-> shelves, bk |-> books, ln |-> loans, st |-> students]

\* What a statement of connection c reads (READ COMMITTED): the committed rows,
\* overridden by the rows c's own open transaction has written.
View(c) == [sh |-> Over(shelves, conn[c].w.sh),
            bk |-> Over(books, conn[c].w.bk),
            ln |-> Over(loans, conn[c].w.ln),
            st |-> students]

\* The rows a transaction holds written after its view went from the committed
\* data to V: the rows it had written before and those V changes.
Writes(base, w, new) == [k \in {k \in DOMAIN base : k \in DOMAIN w \/ new[k] # base[k]} |-> new[k]]
WritesOf(c, V) == [sh |-> Writes(shelves, conn[c].w.sh, V.sh),
                   bk |-> Writes(books, conn[c].w.bk, V.bk),
                   ln |-> Writes(loans, conn[c].w.ln, V.ln)]

\* ------------------------------------------------------ statement results
\* A statement either completes with the data as it leaves them (and the
\* number of rows it affected) or raises; the reason is the exception.
Ok(V) == [ok |-> TRUE, why |-> "", v |-> V, rows |-> 1]
OkRows(V, n) == [ok |-> TRUE, why |-> "", v |-> V, rows |-> n]
Err(V, reason) == [ok |-> FALSE, why |-> reason, v |-> V, rows |-> 0]
Then(r, F(_)) == IF r.ok THEN F(r.v) ELSE r

\* -------------------------------------------------------- shelves table
\* The shelves CHECKs without the upper half of chk_current_book_count_valid
\* (current_book_count <= total_capacity): what C7 would have to survive
\* were the constraint not there.
ShelfRowValidNoUpper(row) == row.cap > 0 /\ row.cnt >= 0

\* chk_total_capacity_positive, chk_current_book_count_valid
ShelfRowValid(row) == row.cap > 0 /\ row.cnt >= 0 /\ row.cnt <= row.cap

\* A shelf id with no row: one never entered, or one whose row was deleted.
\* Every row has total_capacity > 0 (chk_total_capacity_positive), so capacity
\* 0 stands for a row that is not there.
NoShelf == [cap |-> 0, cnt |-> 0]
HasShelf(V, s) == s \in DOMAIN V.sh /\ V.sh[s] # NoShelf
ShelfRows(V) == {s \in DOMAIN V.sh : HasShelf(V, s)}

\* check_shelf_capacity(shelf_id_param)
check_shelf_capacity(V, s) ==
    IF ~HasShelf(V, s) THEN "shelf_not_found"
    ELSE IF V.sh[s].cnt < V.sh[s].cap THEN "has_capacity" ELSE "full"

\* update_shelf_book_count, first half: SELECT current_book_count +
\* count_change, total_capacity INTO new_count, max_capacity and the three
\* RAISE EXCEPTION tests.
NewShelfCount(V, s, d) ==
    IF ~HasShelf(V, s) THEN [ok |-> FALSE, why |-> "shelf_not_found", n |-> 0]
    ELSE LET new_count == V.sh[s].cnt + d
             max_capacity == V.sh[s].cap
         IN IF new_count < 0 THEN [ok |-> FALSE, why |-> "negative_count", n |-> new_count]
            ELSE IF new_count > max_capacity
                 THEN [ok |-> FALSE, why |-> "capacity_exceeded", n |-> new_count]
                 ELSE [ok |-> TRUE, why |-> "", n |-> new_count]

\* update_shelf_book_count, second half: UPDATE shelves SET current_book_count
\* = new_count, under the table's CHECK constraints.
SetShelfCount(V, s, n) ==
    LET row == [V.sh[s] EXCEPT !.cnt = n]
    IN IF ShelfRowValid(row) THEN Ok([V EXCEPT !.sh[s] = row])
       ELSE Err(V, "chk_current_book_count_valid")

update_shelf_book_count(V, s, d) ==
    LET r == NewShelfCount(V, s, d)
    IN IF r.ok THEN SetShelfCount(V, s, r.n) ELSE Err(V, r.why)

\* ----------------------------------------------------------- books table
\* The CHECK constraints of books that involve book_type, shelf_id and status:
\* the two IN lists, chk_physical_book_has_shelf, chk_digital_book_no_shelf.
BookRowValid(row) ==
    /\ row.btype \in BookTypes
    /\ row.status \in BookStatuses
    /\ (row.btype = "digital" \/ row.shelf # NULL)
    /\ (row.btype = "physical" \/ row.shelf = NULL)

\* validate_book_shelf_placement(): trigger_books_shelf_validation, BEFORE
\* INSERT OR UPDATE ON books FOR EACH ROW (every UPDATE, whatever it sets).
validate_book_shelf_placement(V, new) ==
    IF new.btype = "physical" /\ new.shelf # NULL
    THEN LET has == check_shelf_capacity(V, new.shelf)
         IN IF has = "has_capacity" THEN Ok(V)
            ELSE IF has = "full" THEN Err(V, "shelf_full")
            ELSE Err(V, "shelf_not_found")
    ELSE Ok(V)

\* PERFORM update_shelf_book_count(shelf, change), as the books trigger calls it.
Perform(shelf, change) == <<[shelf |-> shelf, change |-> change]>>

\* The UPDATE branch with the decrement of the old shelf left out of its
\* "shelf changed" block: what C10 would have to survive were it not there.
ShelfCountOnUpdateNoDecrement(old, new) ==
    IF old.shelf # new.shelf /\ new.btype = "physical" /\ new.shelf # NULL
    THEN Perform(new.shelf, 1)
    ELSE <<>>

\* update_shelf_count_on_book_change(), the UPDATE branch: the calls of
\* update_shelf_book_count it makes, in their order; first the "shelf changed
\* for physical book" block, then the "book type changed" block.
ShelfCountOnUpdate(old, new) ==
    (IF old.shelf # new.shelf /\ new.btype = "physical"
     THEN (IF old.shelf # NULL THEN Perform(old.shelf, -1) ELSE <<>>)
          \o (IF new.shelf # NULL THEN Perform(new.shelf, 1) ELSE <<>>)
     ELSE <<>>)
    \o (IF old.btype # new.btype
        THEN (IF old.btype = "physical" /\ old.shelf # NULL
              THEN Perform(old.shelf, -1) ELSE <<>>)
             \o (IF new.btype = "physical" /\ new.shelf # NULL
                 THEN Perform(new.shelf, 1) ELSE <<>>)
        ELSE <<>>)

\* update_shelf_count_on_book_change(): the calls of update_shelf_book_count
\* it makes for an INSERT, an UPDATE or a DELETE of a books row.
ShelfCountCalls(tg_op, old, new) ==
    CASE tg_op = "INSERT" ->
             IF new.shelf # NULL /\ new.btype = "physical"
             THEN Perform(new.shelf, 1) ELSE <<>>
      [] tg_op = "UPDATE" -> ShelfCountOnUpdate(old, new)
      [] tg_op = "DELETE" ->
             IF old.shelf # NULL /\ old.btype = "physical"
             THEN Perform(old.shelf, -1) ELSE <<>>

\* The calls one after the other, each on the data the one before left; the
\* first to raise ends the statement.
RECURSIVE PerformAll(_, _)
PerformAll(V, calls) ==
    IF calls = <<>> THEN Ok(V)
    ELSE Then(update_shelf_book_count(V, Head(calls).shelf, Head(calls).change),
              LAMBDA v1 : PerformAll(v1, Tail(calls)))

\* The trigger function without its DELETE branch: what C1 would have to
\* survive were a deleted book never taken off its shelf's count.
ShelfCountOnChangeNoDelete(V, tg_op, old, new) ==
    IF tg_op = "DELETE" THEN Ok(V) ELSE PerformAll(V, ShelfCountCalls(tg_op, old, new))

\* update_shelf_count_on_book_change(): trigger_books_shelf_count, AFTER
\* INSERT OR UPDATE OR DELETE ON books FOR EACH ROW.
update_shelf_count_on_book_change(V, tg_op, old, new) ==
    PerformAll(V, ShelfCountCalls(tg_op, old, new))

\* INSERT INTO books: the BEFORE trigger, the CHECK constraints, the row, the
\* AFTER trigger.  A raise anywhere undoes the whole statement.
InsertBook(V, b, row) ==
    Then(validate_book_shelf_placement(V, row),
         LAMBDA v1 :
           IF ~BookRowValid(row) THEN Err(V, "books_check_violation")
           ELSE update_shelf_count_on_book_change(
                    [v1 EXCEPT !.bk[b] = row], "INSERT", NoBook, row))

\* UPDATE books SET ... WHERE book_id = b, the row becoming new: no row, no
\* trigger; else the BEFORE trigger, the CHECK constraints, the row, the AFTER
\* trigger.
UpdateBook(V, b, new) ==
    IF ~V.bk[b].ex THEN OkRows(V, 0)
    ELSE Then(validate_book_shelf_placement(V, new),
              LAMBDA v1 :
                IF ~BookRowValid(new) THEN Err(V, "books_check_violation")
                ELSE update_shelf_count_on_book_change(
                         [v1 EXCEPT !.bk[b] = new], "UPDATE", V.bk[b], new))

\* DELETE FROM books WHERE book_id = b: the row goes, its loans go with it
\* (loans.book_id ... ON DELETE CASCADE; their AFTER DELETE trigger finds no
\* book row left to update), then the AFTER trigger of books.
DeleteBook(V, b) ==
    IF ~V.bk[b].ex THEN OkRows(V, 0)
    ELSE LET gone == [V EXCEPT !.bk[b] = NoBook,
                               !.ln = [l \in DOMAIN V.ln |->
                                         IF V.ln[l].ex /\ V.ln[l].book = b
                                         THEN NoLoan ELSE V.ln[l]]]
         IN update_shelf_count_on_book_change(gone, "DELETE", V.bk[b], NoBook)

\* ----------------------------------------------------------- loans table
\* calculate_estimated_return_date(loan_date_param, book_type_param)
calculate_estimated_return_date(loan_date_param, book_type_param) ==
    IF book_type_param = "digital"
    THEN loan_date_param + digital_loan_days
    ELSE loan_date_param + default_loan_days

\* The count with loan_status = 'active' alone: what C12 would have to
\* survive were overdue loans left out of the limit.
ActiveOnlyLoansCount(V, st) ==
    Cardinality({l \in DOMAIN V.ln : V.ln[l].ex /\ V.ln[l].student = st
                                       /\ V.ln[l].status = "active"})

\* SELECT COUNT(*) FROM loans WHERE student_id = NEW.student_id AND
\* loan_status IN ('active', 'overdue')
active_loans_count(V, st) ==
    Cardinality({l \in DOMAIN V.ln : V.ln[l].ex /\ V.ln[l].student = st
                                  /\ V.ln[l].status \in OpenLoan})

\* validate_loan_creation(): trigger_loans_validation, BEFORE INSERT ON loans
\* FOR EACH ROW; its tests in their order.
validate_loan_creation(V, new) ==
    IF new.book \notin DOMAIN V.bk \/ ~V.bk[new.book].ex THEN Err(V, "book_not_found")
    ELSE IF V.bk[new.book].status # "available" THEN Err(V, "book_not_available")
    ELSE IF new.student \notin Students \/ V.st[new.student] \notin StudentStatuses
         THEN Err(V, "student_not_found")
    ELSE IF V.st[new.student] # "active" THEN Err(V, "student_not_active")
    ELSE IF active_loans_count(V, new.student) >= max_loans
         THEN Err(V, "loan_limit_reached")
    ELSE Ok(V)

\* validate_loan_creation(), its last block: NEW.estimated_return_date when the
\* INSERT gave none.
WithEstimatedReturn(V, new) ==
    IF new.est = NULL
    THEN [new EXCEPT !.est = calculate_estimated_return_date(new.loan_date,
                                                             V.bk[new.book].btype)]
    ELSE new

\* The CHECKs without chk_loan_date_not_future: what C35 would have to survive
\* were the table to take a loan dated after CURRENT_DATE.
LoanRowValidFutureDate(row) ==
    /\ row.status \in LoanStatuses
    /\ row.est # NULL
    /\ row.est > row.loan_date
    /\ (row.ret = NULL \/ row.ret >= row.loan_date)
    /\ (row.status = "returned" => row.ret # NULL)
    /\ (row.status = "active" => row.ret = NULL)
    /\ row.renewals >= 0
    /\ row.est <= row.loan_date + max_loan_period

\* The CHECKs without chk_returned_loan_has_return_date and
\* chk_active_loan_no_return_date: what C28 would have to survive were the two
\* constraints not there.
LoanRowValidNoStatusDates(row) ==
    /\ row.status \in LoanStatuses
    /\ row.est # NULL
    /\ row.loan_date <= today
    /\ row.est > row.loan_date
    /\ (row.ret = NULL \/ row.ret >= row.loan_date)
    /\ row.renewals >= 0
    /\ row.est <= row.loan_date + max_loan_period

\* The CHECK constraints of loans (and NOT NULL of estimated_return_date).
LoanRowValid(row) ==
    /\ row.status \in LoanStatuses
    /\ row.est # NULL
    /\ row.loan_date <= today
    /\ row.est > row.loan_date
    /\ (row.ret = NULL \/ row.ret >= row.loan_date)
    /\ row.renewals >= 0
    /\ (row.status # "returned" \/ row.ret # NULL)
    /\ (row.status # "active" \/ row.ret = NULL)
    /\ row.est <= row.loan_date + max_loan_period

\* idx_loans_unique_active_book without its uniqueness: what C2 would have to
\* survive were the index an ordinary one.
NonUniqueActiveBook(V, l, row) == TRUE

\* idx_loans_unique_active_book: CREATE UNIQUE INDEX ... ON loans(book_id)
\* WHERE loan_status IN ('active', 'overdue'); row is the row loan l becomes.
idx_loans_unique_active_book(V, l, row) ==
    row.status \in OpenLoan =>
        \A o \in DOMAIN V.ln \ {l} :
            ~(V.ln[o].ex /\ V.ln[o].book = row.book /\ V.ln[o].status \in OpenLoan)

\* UPDATE books SET status = ... WHERE book_id = ..., as the loans trigger
\* issues it: an UPDATE of books like any other, with that table's triggers.
SetBookStatus(V, b, status) ==
    IF b \in DOMAIN V.bk THEN UpdateBook(V, b, [V.bk[b] EXCEPT !.status = status])
    ELSE OkRows(V, 0)

\* update_book_status_on_loan_change(): trigger_loans_book_status, AFTER
\* INSERT OR UPDATE OR DELETE ON loans FOR EACH ROW.
update_book_status_on_loan_change(V, tg_op, old, new) ==
    CASE tg_op = "INSERT" -> SetBookStatus(V, new.book, "loaned")
      [] tg_op = "UPDATE" ->
             Then(Then(IF old.status # "returned" /\ new.status = "returned"
                       THEN SetBookStatus(V, new.book, "available") ELSE Ok(V),
                       LAMBDA v1 : IF old.status = "returned" /\ new.status \in OpenLoan
                                   THEN SetBookStatus(v1, new.book, "loaned") ELSE Ok(v1)),
                  LAMBDA v2 : IF old.status # "lost" /\ new.status = "lost"
                              THEN SetBookStatus(v2, new.book, "lost") ELSE Ok(v2))
      [] tg_op = "DELETE" ->
             IF old.status \in OpenLoan
             THEN SetBookStatus(V, old.book, "available") ELSE Ok(V)

\* The outcome of a statement on one row of loans: the trigger's outcome, one
\* row affected.
OneRow(r) == IF r.ok THEN OkRows(r.v, 1) ELSE r

\* INSERT INTO loans after its BEFORE trigger: the CHECK constraints, the
\* unique index, the row, the AFTER trigger.
InsertLoanRow(V, l, new) ==
    IF ~LoanRowValid(new) THEN Err(V, "loans_check_violation")
    ELSE IF ~idx_loans_unique_active_book(V, l, new)
         THEN Err(V, "idx_loans_unique_active_book")
    ELSE OneRow(update_book_status_on_loan_change(
                    [V EXCEPT !.ln[l] = new], "INSERT", NoLoan, new))

\* INSERT INTO loans ... RETURNING loan_id: the BEFORE trigger, then the rest.
InsertLoan(V, l, row) ==
    Then(validate_loan_creation(V, row),
         LAMBDA v1 : InsertLoanRow(v1, l, WithEstimatedReturn(V, row)))

\* UPDATE loans SET ... WHERE loan_id = l, the row becoming new: the CHECK
\* constraints, the unique index, the row, the AFTER trigger.
UpdateLoan(V, l, new) ==
    IF ~V.ln[l].ex THEN OkRows(V, 0)
    ELSE IF ~LoanRowValid(new) THEN Err(V, "loans_check_violation")
    ELSE IF ~idx_loans_unique_active_book(V, l, new)
         THEN Err(V, "idx_loans_unique_active_book")
    ELSE OneRow(update_book_status_on_loan_change(
                    [V EXCEPT !.ln[l] = new], "UPDATE", V.ln[l], new))

\* UPDATE loans SET loan_status = 'overdue' WHERE loan_status = 'active' AND
\* actual_return_date IS NULL AND estimated_return_date < CURRENT_DATE: the
\* rows of ls one after the other, rows_affected their number.
RECURSIVE MarkOverdue(_, _)
MarkOverdue(V, ls) ==
    IF ls = {} THEN OkRows(V, 0)
    ELSE LET l == CHOOSE x \in ls : \A y \in ls : x <= y
             r == UpdateLoan(V, l, [V.ln[l] EXCEPT !.status = "overdue"])
         IN IF ~r.ok THEN r
            ELSE LET rest == MarkOverdue(r.v, ls \ {l})
                 IN IF rest.ok THEN OkRows(rest.v, rest.rows + 1) ELSE rest

\* The sweep without loan_status = 'active' in its WHERE clause: what C17
\* would have to survive were loans already overdue marked again.
SweepWhateverStatus(V) ==
    MarkOverdue(V, {l \in DOMAIN V.ln : /\ V.ln[l].ex /\ V.ln[l].status # "returned"
                                         /\ V.ln[l].ret = NULL /\ V.ln[l].est < today})

\* The sweep without estimated_return_date < CURRENT_DATE in its WHERE clause:
\* what C31 would have to survive were loans not yet due marked too.
SweepNotYetDue(V) ==
    MarkOverdue(V, {l \in DOMAIN V.ln : /\ V.ln[l].ex /\ V.ln[l].status = "active"
                                         /\ V.ln[l].ret = NULL})

\* update_overdue_loans() and the same UPDATE in LoanRepository
update_overdue_loans(V) ==
    MarkOverdue(V, {l \in DOMAIN V.ln : /\ V.ln[l].ex /\ V.ln[l].status = "active"
                                     /\ V.ln[l].ret = NULL /\ V.ln[l].est < today})

\* ------------------------------------------------------------ connection
\* The record of a returned call.
Returned(c, op, ok, why, rows) ==
    [op |-> op, c |-> c, ok |-> ok, why |-> why, rows |-> rows]

InFailedTx(c) == conn[c].failed
Idle(c) == call[c].pc = "idle"
UnchangedData == UNCHANGED <<shelves, books, students, loans>>

\* The rows of a table another connection's open transaction has written:
\* locked until that transaction ends.
LockedBy(o, t) == DOMAIN conn[o].w[t]

\* The statement with outcome r on View(c) has to wait: it writes a row that
\* another connection's open transaction has written, or enters in
\* idx_loans_unique_active_book a book_id that such a transaction has entered
\* (the index waits for that transaction to end before it decides).
MustWait(c, r) ==
    /\ r.ok
    /\ \E o \in Conns \ {c} :
         \/ \E t \in {"sh", "bk", "ln"} :
              \E k \in LockedBy(o, t) : r.v[t][k] # View(c)[t][k]
         \/ \E l \in DOMAIN loans, k \in LockedBy(o, "ln") :
              /\ r.v.ln[l] # View(c).ln[l]
              /\ r.v.ln[l].ex /\ r.v.ln[l].status \in OpenLoan
              /\ conn[o].w.ln[k].ex /\ conn[o].w.ln[k].status \in OpenLoan
              /\ conn[o].w.ln[k].book = r.v.ln[l].book

\* cursor.execute(statement) on connection c, r the statement's outcome on
\* View(c); then self._connection.commit() when commit (execute_command) and
\* nothing when not (execute_query).  needRows: the method returns
\* rows_affected > 0.  In a failed transaction the statement raises at once;
\* a statement that has to wait does not return.
Outcome(c, op, r, commit, needRows) ==
    IF InFailedTx(c)
    THEN /\ UnchangedData
         /\ UNCHANGED conn
         /\ last' = Returned(c, op, FALSE, "in_failed_transaction", 0)
    ELSE IF ~r.ok
    THEN /\ UnchangedData
         /\ conn' = [conn EXCEPT ![c] = [failed |-> TRUE, w |-> NoWrites]]
         /\ last' = Returned(c, op, FALSE, r.why, 0)
    ELSE IF commit
    THEN /\ shelves' = r.v.sh
         /\ books' = r.v.bk
         /\ loans' = r.v.ln
         /\ students' = r.v.st
         /\ conn' = [conn EXCEPT ![c].w = NoWrites]
         /\ last' = Returned(c, op, needRows => r.rows > 0, "", r.rows)
    ELSE /\ UnchangedData
         /\ conn' = [conn EXCEPT ![c].w = WritesOf(c, r.v)]
         /\ last' = Returned(c, op, needRows => r.rows > 0, "", r.rows)

\* A repository call made of one statement, taken as one step.
Run(c, op, r, commit, needRows) ==
    /\ Idle(c)
    /\ InFailedTx(c) \/ ~MustWait(c, r)
    /\ Outcome(c, op, r, commit, needRows)
    /\ UNCHANGED <<today, call>>

\* DatabaseConnection.disconnect() (close_global_connection, a pool dropping
\* the connection): the server rolls the open transaction back; get_cursor
\* connects afresh on the next statement.
Disconnect(c) ==
    /\ Idle(c)
    /\ conn' = [conn EXCEPT ![c] = [failed |-> FALSE, w |-> NoWrites]]
    /\ last' = Returned(c, "disconnect", TRUE, "", 0)
    /\ UnchangedData
    /\ UNCHANGED <<today, call>>

\* ------------------------------------------------- book repository methods
\* A book id the books_book_id_seq sequence has not handed out: no row of it
\* exists, committed or in any open transaction.
FreeBook(b) == ~books[b].ex /\ \A c \in Conns : b \notin DOMAIN conn[c].w.bk

\* BookRepository.create(book_data): INSERT ... RETURNING book_id through
\* execute_query.
BookCreate(c, b, btype, shelf, status) ==
    /\ FreeBook(b)
    /\ Run(c, "book_create",
           InsertBook(View(c), b, [ex |-> TRUE, btype |-> btype, shelf |-> shelf,
                                   status |-> status]),
           FALSE, FALSE)

\* UPDATE books SET shelf_id = %s WHERE book_id = %s AND book_type = 'physical'
MoveStatement(V, b, shelf) ==
    IF V.bk[b].ex /\ V.bk[b].btype = "physical"
    THEN UpdateBook(V, b, [V.bk[b] EXCEPT !.shelf = shelf])
    ELSE OkRows(V, 0)

\* BookRepository.move_to_shelf(book_id, shelf_id) and
\* BooksTableManager.move_book_to_shelf(book_id, new_shelf_id), the same
\* statement through execute_command.
MoveToShelf(c, b, shelf) ==
    Run(c, "move_to_shelf", MoveStatement(View(c), b, shelf), TRUE, TRUE)

\* BookRepository.delete(book_id)
BookDelete(c, b) ==
    Run(c, "book_delete", DeleteBook(View(c), b), TRUE, TRUE)

\* The fields of book_data that BookRepository.update reads here.
BookFields == {"book_type", "shelf_id", "status"}
SetField(fields, f, old, given) == IF f \in fields THEN given ELSE old

\* BookRepository.update(book_id, book_data), fields the keys book_data holds:
\* UPDATE books SET <the fields given> WHERE book_id = %s; no field given, no
\* statement and False.
BookUpdate(c, b, fields, btype, shelf, status) ==
    /\ fields # {}
    /\ LET V == View(c)
           new == [ex |-> TRUE,
                   btype |-> SetField(fields, "book_type", V.bk[b].btype, btype),
                   shelf |-> SetField(fields, "shelf_id", V.bk[b].shelf, shelf),
                   status |-> SetField(fields, "status", V.bk[b].status, status)]
       IN Run(c, "book_update", UpdateBook(V, b, new), TRUE, TRUE)

\* ------------------------------------------------ shelf ledger methods
\* ShelvesTableManager.update_book_count(shelf_id, count_change): SELECT
\* update_shelf_book_count(%s, %s) through execute_command; True unless the
\* function raised.
UpdateBookCount(c, s, d) ==
    Run(c, "update_book_count", update_shelf_book_count(View(c), s, d), TRUE, FALSE)

\* UPDATE shelves SET total_capacity = %s WHERE shelf_id = %s
CapacityStatement(V, s, cap) ==
    IF ~HasShelf(V, s) THEN OkRows(V, 0)
    ELSE LET row == [V.sh[s] EXCEPT !.cap = cap]
         IN IF ShelfRowValid(row) THEN Ok([V EXCEPT !.sh[s] = row])
            ELSE Err(V, "shelves_check_violation")

\* ShelfRepository.update(shelf_id, {'total_capacity': cap})
ShelfUpdate(c, s, cap) ==
    Run(c, "shelf_update", CapacityStatement(View(c), s, cap), TRUE, TRUE)

\* SELECT COUNT(*) FROM books WHERE books.shelf_id = shelves.shelf_id AND
\* books.book_type = 'physical'
ActualBookCount(V, s) ==
    Cardinality({b \in Books : V.bk[b].ex /\ V.bk[b].btype = "physical"
                                /\ V.bk[b].shelf = s})

\* UPDATE shelves SET current_book_count = (SELECT COUNT(*) ...): every row of
\* shelves, each under the CHECK constraints; rows_affected is the number of
\* rows of the table.
FixStatement(V) ==
    LET fixed == [s \in Shelves |->
                    IF HasShelf(V, s) THEN [V.sh[s] EXCEPT !.cnt = ActualBookCount(V, s)]
                    ELSE V.sh[s]]
    IN IF \A s \in ShelfRows(V) : ShelfRowValid(fixed[s])
       THEN OkRows([V EXCEPT !.sh = fixed], Cardinality(ShelfRows(V)))
       ELSE Err(V, "chk_current_book_count_valid")

\* ShelfRepository.fix_capacity_counts()
FixCapacityCounts(c) ==
    Run(c, "fix_capacity_counts", FixStatement(View(c)), TRUE, FALSE)

\* books.shelf_id REFERENCES shelves(shelf_id) ON DELETE SET NULL: UPDATE books
\* SET shelf_id = NULL on the rows of bs that reference the deleted shelf, one
\* after the other, each an UPDATE of books with its triggers and CHECKs.
RECURSIVE SetShelfNull(_, _)
SetShelfNull(V, bs) ==
    IF bs = {} THEN Ok(V)
    ELSE LET b == CHOOSE x \in bs : \A y \in bs : x <= y
         IN Then(UpdateBook(V, b, [V.bk[b] EXCEPT !.shelf = NULL]),
                 LAMBDA v1 : SetShelfNull(v1, bs \ {b}))

\* DELETE FROM shelves WHERE shelf_id = %s: the row goes, then the foreign key
\* of books acts on the rows that reference it.
DeleteShelf(V, s) ==
    IF ~HasShelf(V, s) THEN OkRows(V, 0)
    ELSE LET r == SetShelfNull([V EXCEPT !.sh[s] = NoShelf],
                               {b \in DOMAIN V.bk : V.bk[b].ex /\ V.bk[b].shelf = s})
         IN IF r.ok THEN OkRows(r.v, 1) ELSE Err(V, r.why)

\* ------------------------------------------------------------ loan methods
\* A loan id the loans_loan_id_seq sequence has not handed out to a row that
\* exists, committed or in an open transaction; the next one is the least.
FreeLoan(l) == ~loans[l].ex /\ \A c \in Conns : l \notin DOMAIN conn[c].w.ln
NextLoanId ==
    CHOOSE l \in DOMAIN loans : FreeLoan(l) /\ \A o \in DOMAIN loans : FreeLoan(o) => l <= o

\* The row an INSERT INTO loans (book_id, student_id, loan_date
\* [, estimated_return_date], notes) gives: loan_status DEFAULT 'active',
\* renewal_count DEFAULT 0, no actual_return_date.
NewLoan(b, st, loan_date, est) ==
    [ex |-> TRUE, book |-> b, student |-> st, status |-> "active",
     loan_date |-> loan_date, est |-> est, ret |-> NULL, renewals |-> 0]

\* validate_loan_data with the test of the loan period left out: what C34
\* would have to survive were a period over 365 days handed on to the INSERT.
ValidateNoLoanPeriod(b, st, loan_date, est) ==
    /\ b # NULL /\ st # NULL
    /\ ~(loan_date > today)
    /\ est # NULL => ~(est <= loan_date)

\* LoansTableManager.validate_loan_data(loan_data), on the book_id, student_id,
\* loan_date and estimated_return_date that create_loan hands it (None and 0
\* are the ids it takes for missing): no error found.
validate_loan_data(b, st, loan_date, est) ==
    /\ b # NULL /\ st # NULL
    /\ ~(loan_date > today)
    /\ est # NULL => (~(est <= loan_date) /\ ~(est - loan_date > max_loan_period))

\* LoansTableManager.create_loan(book_id, student_id, loan_date,
\* estimated_return_date): loan_date None is date.today(); validation errors
\* return None before any statement; else the INSERT through execute_query.
TableCreateLoan(c, b, st, ld, est) ==
    /\ \E l \in DOMAIN loans : FreeLoan(l)
    /\ LET loan_date == IF ld = NULL THEN today ELSE ld
       IN IF ~validate_loan_data(b, st, loan_date, est)
          THEN /\ Idle(c)
               /\ last' = Returned(c, "create_loan", FALSE, "validation_errors", 0)
               /\ UnchangedData
               /\ UNCHANGED <<conn, today, call>>
          ELSE Run(c, "create_loan",
                   InsertLoan(View(c), NextLoanId, NewLoan(b, st, loan_date, est)),
                   FALSE, TRUE)

\* LoanRepository.create_loan(book_id, student_id, loan_date,
\* estimated_return_date): estimated_return_date None is loan_date +
\* timedelta(days=14), whatever the book's type; the INSERT through
\* execute_query.
RepoCreateLoan(c, b, st, ld, est) ==
    /\ \E l \in DOMAIN loans : FreeLoan(l)
    /\ LET loan_date == IF ld = NULL THEN today ELSE ld
           estimated_return_date == IF est = NULL THEN loan_date + 14 ELSE est
       IN Run(c, "create_loan",
              InsertLoan(View(c), NextLoanId,
                         NewLoan(b, st, loan_date, estimated_return_date)),
              FALSE, TRUE)

\* UPDATE loans SET loan_status = 'returned', actual_return_date = %s WHERE
\* loan_id = %s AND loan_status IN ('active', 'overdue')
ReturnStatement(V, l, return_date) ==
    IF V.ln[l].ex /\ V.ln[l].status \in OpenLoan
    THEN UpdateLoan(V, l, [V.ln[l] EXCEPT !.status = "returned", !.ret = return_date])
    ELSE OkRows(V, 0)

\* LoanRepository.return_book(loan_id, return_date) and
\* LoansTableManager.return_book, the same statement through execute_command;
\* return_date None is date.today().
ReturnBook(c, l, rd) ==
    Run(c, "return_book",
        ReturnStatement(View(c), l, IF rd = NULL THEN today ELSE rd), TRUE, TRUE)

\* The renewal without AND loan_status = 'active': what C30 would have to
\* survive were the statement to take a loan in any status.
RenewWhateverStatus(V, l, new_return_date) ==
    IF V.ln[l].ex
    THEN UpdateLoan(V, l, [V.ln[l] EXCEPT !.est = new_return_date,
                                          !.renewals = V.ln[l].renewals + 1])
    ELSE OkRows(V, 0)

\* UPDATE loans SET estimated_return_date = %s, renewal_count = renewal_count
\* + 1 WHERE loan_id = %s AND loan_status = 'active'
RenewStatement(V, l, new_return_date) ==
    IF V.ln[l].ex /\ V.ln[l].status = "active"
    THEN UpdateLoan(V, l, [V.ln[l] EXCEPT !.est = new_return_date,
                                          !.renewals = V.ln[l].renewals + 1])
    ELSE OkRows(V, 0)

\* LoanRepository.renew_loan(loan_id, new_return_date) and
\* LoansTableManager.renew_loan
RenewLoan(c, l, new_return_date) ==
    Run(c, "renew_loan", RenewStatement(View(c), l, new_return_date), TRUE, TRUE)

\* LoanRepository.update_status(loan_id, status): UPDATE loans SET loan_status
\* = %s WHERE loan_id = %s
LoanUpdateStatus(c, l, status) ==
    Run(c, "loan_update_status",
        UpdateLoan(View(c), l, [View(c).ln[l] EXCEPT !.status = status]), TRUE, TRUE)

\* LoanRepository.update_overdue_loans(): the UPDATE through execute_command,
\* returning rows_affected.
UpdateOverdueLoans(c) ==
    Run(c, "update_overdue_loans", update_overdue_loans(View(c)), TRUE, FALSE)

\* LoansTableManager.update_overdue_loans(): SELECT update_overdue_loans()
\* through execute_query, returning updated_count.
TableUpdateOverdueLoans(c) ==
    Run(c, "update_overdue_loans", update_overdue_loans(View(c)), FALSE, FALSE)

\* BookRepository.update_status(book_id, status) and
\* BooksTableManager.update_book_status (status one of the four): UPDATE books
\* SET status = %s WHERE book_id = %s
BookUpdateStatus(c, b, status) ==
    Run(c, "book_update_status", SetBookStatus(View(c), b, status), TRUE, TRUE)

\* A status that is none of the four, as a caller may hand it in.
StatusArgs == BookStatuses \cup {"reserved"}

\* BooksTableManager.update_book_status(book_id, new_status): a status outside
\* the list returns False before any statement; else the UPDATE through
\* execute_command.
TableUpdateBookStatus(c, b, new_status) ==
    IF new_status \notin BookStatuses
    THEN /\ Idle(c)
         /\ last' = Returned(c, "book_update_status", FALSE, "invalid_status", 0)
         /\ UnchangedData
         /\ UNCHANGED <<conn, today, call>>
    ELSE BookUpdateStatus(c, b, new_status)

\* The calendar: CURRENT_DATE moves on, by a default loan period and a day at
\* a time (a loan of the default length made before is past due after),
\* MaxDay times.
LastDay == 1 + MaxDay * (default_loan_days + 1)
Tick ==
    /\ today + default_loan_days + 1 <= LastDay
    /\ today' = today + default_loan_days + 1
    /\ UNCHANGED <<shelves, books, students, loans, conn, call, last>>

\* ------------------------------------------- calls followed step by step
\* How a call in progress ends: the outcome of its last statement, and the
\* call's record closed with the result returned.
Return(c, r, commit, needRows) ==
    /\ Outcome(c, call[c].op, r, commit, needRows)
    /\ call' = [call EXCEPT ![c] = Finished(call[c], last'.ok)]
    /\ UNCHANGED today

\* How it goes on to its next step, having written what V holds.
Proceed(c, V, k) ==
    /\ conn' = [conn EXCEPT ![c].w = WritesOf(c, V)]
    /\ call' = [call EXCEPT ![c] = k]
    /\ UnchangedData
    /\ UNCHANGED <<today, last>>

\* LoanRepository.create_loan(book_id, student_id), first step: the INSERT
\* reaches trigger_loans_validation, which reads the book, the student and the
\* student's loans as committed by then.
IssuedLoan(c) == NewLoan(call[c].book, call[c].arg, today, today + 14)
LoanValidate(c) ==
    /\ call[c].pc = "issued" /\ call[c].op = "create_loan"
    /\ LET r == validate_loan_creation(View(c), IssuedLoan(c))
       IN IF InFailedTx(c) \/ ~r.ok
          THEN Return(c, r, FALSE, TRUE)
          ELSE Proceed(c, View(c), [call[c] EXCEPT !.pc = "insert"])

\* LoanRepository.create_loan, second step: the row goes in under the CHECK
\* constraints and the unique index (which waits for an open transaction
\* that has entered the same book), the AFTER trigger writes the book's
\* status, and execute_query returns the loan_id without committing.
LoanInsert(c) ==
    /\ call[c].pc = "insert"
    /\ \E l \in DOMAIN loans : FreeLoan(l)
    /\ LET r == InsertLoanRow(View(c), NextLoanId, IssuedLoan(c))
       IN /\ ~MustWait(c, r)
          /\ Return(c, r, FALSE, TRUE)

\* BookRepository.create (a physical book, on shelf arg) or
\* BookRepository.move_to_shelf (to shelf arg), the row the statement gives
\* the book.
PlacedRow(c) ==
    IF call[c].op = "book_create"
    THEN [ex |-> TRUE, btype |-> "physical", shelf |-> call[c].arg, status |-> "available"]
    ELSE [View(c).bk[call[c].book] EXCEPT !.shelf = call[c].arg]

\* A placement, first step: trigger_books_shelf_validation reads the shelf's
\* count and capacity as committed by then, the row is written under the
\* CHECK constraints, and trigger_books_shelf_count has its
\* update_shelf_book_count calls to make.  move_to_shelf commits at its end
\* (execute_command) and returns rows_affected > 0; create does neither.
PlaceBegin(c) ==
    /\ call[c].pc = "issued" /\ call[c].op \in {"book_create", "move_to_shelf"}
    /\ LET V == View(c)
           b == call[c].book
           old == V.bk[b]
           new == PlacedRow(c)
           moving == call[c].op = "move_to_shelf"
           r == IF moving /\ ~(old.ex /\ old.btype = "physical") THEN OkRows(V, 0)
                ELSE Then(validate_book_shelf_placement(V, new),
                          LAMBDA v1 : IF BookRowValid(new)
                                      THEN Ok([v1 EXCEPT !.bk[b] = new])
                                      ELSE Err(V, "books_check_violation"))
           calls == ShelfCountCalls(IF moving THEN "UPDATE" ELSE "INSERT", old, new)
       IN /\ ~MustWait(c, r)
          /\ IF InFailedTx(c) \/ ~r.ok \/ r.rows = 0 \/ calls = <<>>
             THEN Return(c, r, moving, moving)
             ELSE Proceed(c, r.v, [call[c] EXCEPT !.pc = "read", !.calls = calls])

\* update_shelf_book_count, its SELECT ... INTO new_count, max_capacity and
\* its RAISE EXCEPTION tests, on the shelf row as committed by then.
CountRead(c) ==
    /\ call[c].pc = "read"
    /\ LET h == Head(call[c].calls)
           r == NewShelfCount(View(c), h.shelf, h.change)
       IN IF ~r.ok
          THEN Return(c, Err(View(c), r.why), FALSE, FALSE)
          ELSE Proceed(c, View(c), [call[c] EXCEPT !.pc = "write", !.new_count = r.n])

\* update_shelf_book_count, its UPDATE shelves SET current_book_count =
\* new_count: it waits while another open transaction has written the row,
\* then writes the count it read before; after the last one the call returns.
CountWrite(c) ==
    /\ call[c].pc = "write" /\ call[c].op \in {"book_create", "move_to_shelf"}
    /\ LET h == Head(call[c].calls)
           r == SetShelfCount(View(c), h.shelf, call[c].new_count)
           moving == call[c].op = "move_to_shelf"
       IN /\ \A o \in Conns \ {c} : h.shelf \notin LockedBy(o, "sh")
          /\ IF ~r.ok \/ Tail(call[c].calls) = <<>>
             THEN Return(c, r, moving, moving)
             ELSE Proceed(c, r.v, [call[c] EXCEPT !.pc = "read",
                                                  !.calls = Tail(call[c].calls)])

\* ShelfRepository.fix_capacity_counts(), first step: the UPDATE starts and its
\* subquery counts the physical books of each shelf as committed by then (the
\* statement's snapshot); calls holds, shelf by shelf, the count found.
FixBegin(c) ==
    /\ call[c].pc = "issued" /\ call[c].op = "fix_capacity_counts"
    /\ IF InFailedTx(c)
       THEN Return(c, Ok(View(c)), TRUE, FALSE)
       ELSE Proceed(c, View(c),
                    [call[c] EXCEPT !.pc = "write",
                                    !.calls = [s \in 1..NumShelves |->
                                                 [shelf |-> s,
                                                  change |-> ActualBookCount(View(c), s)]]])

\* fix_capacity_counts, second step: the UPDATE waits while another open
\* transaction has written a shelves row, then gives every row, as it then
\* stands, the count its snapshot found, under the CHECK constraints;
\* execute_command commits and the call returns rows_affected.
FixWrite(c) ==
    /\ call[c].pc = "write" /\ call[c].op = "fix_capacity_counts"
    /\ \A o \in Conns \ {c} : LockedBy(o, "sh") = {}
    /\ LET V == View(c)
           fixed == [s \in Shelves |->
                       IF HasShelf(V, s) THEN [V.sh[s] EXCEPT !.cnt = call[c].calls[s].change]
                       ELSE V.sh[s]]
       IN Return(c, IF \A s \in ShelfRows(V) : ShelfRowValid(fixed[s])
                    THEN OkRows([V EXCEPT !.sh = fixed], Cardinality(ShelfRows(V)))
                    ELSE Err(V, "chk_current_book_count_valid"),
                 TRUE, FALSE)

\* ------------------------------------------------------------ initial state
\* The tables as created, the shelves entered (ShelfRepository.create,
\* current_book_count DEFAULT 0) and the students registered; no book, no loan.
InitConn ==
    /\ today = 1
    /\ conn = [c \in Conns |-> [failed |-> FALSE, w |-> NoWrites]]
    /\ call = [c \in Conns |-> IdleCall]
    /\ last = Returned("A", "connect", TRUE, "", 0)

InitData ==
    /\ shelves \in [Shelves -> [cap : 1..MaxCap, cnt : {0}]]
    /\ books = [b \in Books |-> NoBook]
    /\ loans = [l \in LoanIds |-> NoLoan]
    /\ InitConn

\* The connection of a single-client run: the global connection of
\* get_connection().
Client == "A"

\* --------------------------------------------- placement, one connection
\* Book creation, move-to-shelf and book deletion issued one after the other
\* on one connection.
InitPlace == InitData /\ students = [st \in Students |-> "active"]

NextPlace ==
    \/ \E b \in Books, t \in BookTypes, s \in ShelfArgs \cup {NULL} :
           BookCreate(Client, b, t, s, "available")
    \/ \E b \in Books, s \in ShelfArgs : MoveToShelf(Client, b, s)
    \/ \E b \in Books : BookDelete(Client, b)
    \/ Disconnect(Client)

SpecPlace == InitPlace /\ [][NextPlace]_vars

\* The number of physical books whose shelf_id references shelf s.
BooksOn(V, s) ==
    Cardinality({b \in Books : V.bk[b].ex /\ V.bk[b].btype = "physical"
                                /\ V.bk[b].shelf = s})
CountsExact(V) == \A s \in Shelves : V.sh[s].cnt = BooksOn(V, s)

\* C1: after any sequence of book creations, moves and deletions, every
\* shelf's current_book_count equals the number of physical books whose
\* shelf_id references it, in the committed tables and in what the client's
\* own transaction reads.
C1_CountsMatchBooks == CountsExact(DB) /\ \A c \in Conns : CountsExact(View(c))

\* C1's case: a deletion has succeeded after creations and a move left both
\* books' history behind, and a shelf still holds a book.
C1_Witness ==
    /\ last.op = "book_delete" /\ last.ok
    /\ \E s \in Shelves : shelves[s].cnt = 1 /\ BooksOn(DB, s) = 1

\* A call of connection c that places physical book b on shelf s: its creation
\* there, or its move there.
PlacementCall(c, b, s) ==
    \/ BookCreate(c, b, "physical", s, "available")
    \/ /\ View(c).bk[b].ex /\ View(c).bk[b].btype = "physical"
       /\ MoveToShelf(c, b, s)

\* C8 as claimed: a placement on a shelf whose count equals its capacity is
\* rejected and leaves the target shelf's count, the book's row (its previous
\* shelf_id) and the previous shelf's count as the caller read them before.
C8_RejectedPlacementKeepsState ==
    [][\A b \in Books, s \in Shelves :
         LET V == View(Client)
             W == View(Client)'
         IN (PlacementCall(Client, b, s) /\ V.sh[s].cnt = V.sh[s].cap)
            => ~last'.ok /\ W.sh = V.sh /\ W.bk[b] = V.bk[b]]_vars

MaxDelta == 2
Deltas == (0 - MaxDelta)..MaxDelta

NextLedger ==
    \/ \E b \in Books, t \in BookTypes, s \in ShelfArgs \cup {NULL} :
           BookCreate(Client, b, t, s, "available")
    \/ \E b \in Books, s \in ShelfArgs : MoveToShelf(Client, b, s)
    \/ \E b \in Books : BookDelete(Client, b)
    \/ \E b \in Books, t \in BookTypes, s \in Shelves \cup {NULL} :
         \E fields \in SUBSET {"book_type", "shelf_id"} :
           BookUpdate(Client, b, fields, t, s, "available")
    \/ \E s \in ShelfArgs, d \in Deltas : UpdateBookCount(Client, s, d)
    \/ \E s \in ShelfArgs, cap \in 0..MaxCap : ShelfUpdate(Client, s, cap)
    \/ FixCapacityCounts(Client)
    \/ Disconnect(Client)

SpecLedger == InitPlace /\ [][NextLedger]_vars

CountsInRange(V) ==
    \A s \in Shelves : 0 <= V.sh[s].cnt /\ V.sh[s].cnt <= V.sh[s].cap

\* C7: whatever placements, removals, update_book_count calls, capacity
\* updates and fix_capacity_counts calls have run, every shelf has
\* 0 <= current_book_count <= total_capacity.
C7_CountWithinCapacity == CountsInRange(DB) /\ \A c \in Conns : CountsInRange(View(c))

\* C7's case: a capacity update was refused on a shelf whose count is at the
\* capacity and above the books it really holds.
C7_Witness ==
    /\ last.op = "shelf_update" /\ last.why = "shelves_check_violation"
    /\ \E s \in Shelves : shelves[s].cnt = shelves[s].cap /\ BooksOn(DB, s) < shelves[s].cnt

\* ------------------------------------------------ lending, two connections
\* The books entered and shelved (every physical book b on HomeShelf(b), the
\* counts as the books trigger left them), the students registered (the first
\* active, the others not), no loan yet.
HomeShelf(b) == ((b - 1) % NumShelves) + 1
Shelved(types) ==
    [b \in Books |-> [ex |-> TRUE, btype |-> types[b],
                      shelf |-> IF types[b] = "physical" THEN HomeShelf(b) ELSE NULL,
                      status |-> "available"]]

InitLoan ==
    /\ InitConn
    /\ books = Shelved([b \in Books |-> "physical"])
    /\ shelves = [s \in Shelves |->
                    [cap |-> MaxCap, cnt |-> Cardinality({b \in Books : books[b].shelf = s})]]
    /\ loans = [l \in LoanIds |-> NoLoan]
    /\ students = [st \in Students |-> IF st = 1 THEN "active" ELSE "inactive"]

\* The book the callers of the lending runs contend for.
FirstBook == CHOOSE b \in Books : \A o \in Books : b <= o
MaxRenewals == 1

\* Every lending call, the overdue sweeps and direct edits of the book's
\* status, issued one statement at a time on either connection, for one book.
LoanCalls(c, b) ==
    \/ \E st \in Students, ld \in {NULL, today + 1} : TableCreateLoan(c, b, st, ld, NULL)
    \/ \E st \in Students, est \in {NULL, today} : RepoCreateLoan(c, b, st, NULL, est)
    \/ \E l \in LoanIds : ReturnBook(c, l, NULL)
    \/ \E l \in LoanIds :
           /\ View(c).ln[l].renewals < MaxRenewals
           /\ RenewLoan(c, l, today + default_loan_days)
    \/ \E l \in LoanIds, status \in LoanStatuses : LoanUpdateStatus(c, l, status)
    \/ UpdateOverdueLoans(c)
    \/ TableUpdateOverdueLoans(c)
    \/ \E status \in {"available", "loaned"} : BookUpdateStatus(c, b, status)
    \/ Disconnect(c)

NextLoan ==
    \/ \E c \in Conns : LoanCalls(c, FirstBook)
    \/ Tick

SpecLoan == InitLoan /\ [][NextLoan]_vars

\* The loans of book b that are out: loan_status active or overdue.
OpenLoansOf(V, b) ==
    {l \in LoanIds : V.ln[l].ex /\ V.ln[l].book = b /\ V.ln[l].status \in OpenLoan}
AtMostOneOpenLoan(V) == \A b \in Books : Cardinality(OpenLoansOf(V, b)) <= 1

\* C2: whatever create_loan, return_book, renew_loan, loan status updates,
\* overdue sweeps and direct book status edits the two connections have
\* issued, in whatever order, no book has more than one loan with status
\* active or overdue: not in the committed table, not in what either
\* connection reads.
C2_AtMostOneOpenLoan == AtMostOneOpenLoan(DB) /\ \A c \in Conns : AtMostOneOpenLoan(View(c))

\* C2's case: the book was edited back to available while a loan of it was
\* out, and the create_loan that followed was refused by the unique index.
C2_Witness ==
    /\ last.op = "create_loan" /\ last.why = "idx_loans_unique_active_book"
    /\ Cardinality(OpenLoansOf(DB, FirstBook)) = 1
    /\ books[FirstBook].status = "available"

\* C4 as claimed: in the committed tables a book's status is loaned exactly
\* when a loan of it with status active or overdue exists.
C4_LoanedIffOpenLoan ==
    \A b \in Books : books[b].ex => (books[b].status = "loaned" <=> OpenLoansOf(DB, b) # {})

\* A create_loan call of connection c for book b, through either class.
CreateLoanCall(c, b) ==
    \E st \in Students, ld \in {NULL, today + 1}, est \in {NULL, today} :
        TableCreateLoan(c, b, st, ld, est) \/ RepoCreateLoan(c, b, st, ld, est)

\* C6 as claimed: a create_loan that fails leaves the loans and the book's
\* status as the caller read them before the call; one that succeeds leaves
\* one more loan, active and of that book, and the book loaned.
C6_CreateLoanAllOrNothing ==
    [][\A c \in Conns, b \in Books :
         LET V == View(c)
             W == View(c)'
         IN CreateLoanCall(c, b) =>
              IF last'.ok
              THEN /\ \E l \in LoanIds :
                        /\ ~V.ln[l].ex /\ W.ln[l].ex
                        /\ W.ln[l].book = b /\ W.ln[l].status = "active"
                        /\ \A o \in LoanIds \ {l} : W.ln[o] = V.ln[o]
                   /\ W.bk[b].status = "loaned"
              ELSE W.ln = V.ln /\ W.bk[b].status = V.bk[b].status]_vars

\* ------------------------------------------- returns, one connection
\* Loans made, fallen overdue and returned while the books change shelves and
\* their status is edited.
Yesterday == IF today > 1 THEN {today - 1} ELSE {}
ReturnDates == {NULL} \cup Yesterday

NextReturn ==
    \/ \E b \in Books, st \in Students : RepoCreateLoan(Client, b, st, NULL, NULL)
    \/ \E l \in LoanIds, rd \in ReturnDates : ReturnBook(Client, l, rd)
    \/ UpdateOverdueLoans(Client)
    \/ \E b \in Books, status \in BookStatuses : BookUpdateStatus(Client, b, status)
    \/ \E b \in Books, s \in Shelves : MoveToShelf(Client, b, s)
    \/ Tick
    \/ Disconnect(Client)

SpecReturn == InitLoan /\ [][NextReturn]_vars

\* C5 as claimed: a return_book call on a loan that is active or overdue, with
\* a return date not before the loan date, on a connection whose transaction
\* is in order, succeeds and leaves the loan returned and its book available.
C5_ReturnAlwaysSucceeds ==
    [][\A l \in LoanIds, rd \in ReturnDates :
         LET V == View(Client)
             W == View(Client)'
             return_date == IF rd = NULL THEN today ELSE rd
         IN (/\ ReturnBook(Client, l, rd)
             /\ ~InFailedTx(Client)
             /\ V.ln[l].ex /\ V.ln[l].status \in OpenLoan
             /\ return_date >= V.ln[l].loan_date)
            => /\ last'.ok
               /\ W.ln[l].status = "returned"
               /\ W.bk[V.ln[l].book].status = "available"]_vars

\* ------------------------------------------- two create_loan calls at once
\* The connection of each of the two callers stands for the caller: its
\* student, its book.
Party(c) == IF c = "A" THEN 1 ELSE 2

\* Two active students; each connection has just been handed a create_loan
\* for the same available book.
InitLoanRace ==
    /\ today = 1
    /\ conn = [c \in Conns |-> [failed |-> FALSE, w |-> NoWrites]]
    /\ last = Returned("A", "connect", TRUE, "", 0)
    /\ \E types \in [Books -> BookTypes] : books = Shelved(types)
    /\ shelves = [s \in Shelves |->
                    [cap |-> MaxCap, cnt |-> Cardinality({b \in Books : books[b].shelf = s})]]
    /\ loans = [l \in LoanIds |-> NoLoan]
    /\ students = [st \in Students |-> "active"]
    /\ call = [c \in Conns |-> Issued("create_loan", FirstBook, Party(c))]

\* The two calls step by step; a caller whose call has returned may go on to
\* a call that commits (the overdue sweep) or drop its connection.
NextLoanRace ==
    \E c \in Conns :
        \/ LoanValidate(c)
        \/ LoanInsert(c)
        \/ call[c].res # "none" /\ UpdateOverdueLoans(c)
        \/ call[c].res # "none" /\ Disconnect(c)

SpecLoanRace == InitLoanRace /\ [][NextLoanRace]_vars

BothReturned == \A c \in Conns : call[c].pc = "idle" /\ call[c].res # "none"
Winners == {c \in Conns : call[c].res = "ok"}

\* C3 as claimed: once both concurrent create_loan calls for the book have
\* returned, exactly one has succeeded, exactly one loan of the book is out and
\* the book is loaned.
C3_ExactlyOneWins ==
    BothReturned =>
        /\ Cardinality(Winners) = 1
        /\ Cardinality(OpenLoansOf(DB, FirstBook)) = 1
        /\ books[FirstBook].status = "loaned"

\* ------------------------------------------- two placements at once
\* The shelf both callers place their book on, and the shelf a book that is
\* moved comes from.
RaceShelf == CHOOSE s \in Shelves : \A o \in Shelves : s <= o
FromShelf == CHOOSE s \in Shelves : \A o \in Shelves : s >= o

\* Each connection has just been handed the placement of its own book on
\* RaceShelf, a creation or a move from FromShelf; RaceShelf is empty.
InitShelfRace ==
    /\ today = 1
    /\ conn = [c \in Conns |-> [failed |-> FALSE, w |-> NoWrites]]
    /\ last = Returned("A", "connect", TRUE, "", 0)
    /\ loans = [l \in LoanIds |-> NoLoan]
    /\ students = [st \in Students |-> "active"]
    /\ \E how \in [Conns -> {"book_create", "move_to_shelf"}], cap \in 1..MaxCap :
         /\ call = [c \in Conns |-> Issued(how[c], Party(c), RaceShelf)]
         /\ books = [b \in Books |->
                       IF \E c \in Conns : Party(c) = b /\ how[c] = "move_to_shelf"
                       THEN [ex |-> TRUE, btype |-> "physical", shelf |-> FromShelf,
                             status |-> "available"]
                       ELSE NoBook]
         /\ shelves = [s \in Shelves |->
                         [cap |-> IF s = RaceShelf THEN cap ELSE MaxCap,
                          cnt |-> Cardinality({b \in Books : books[b].ex /\ books[b].shelf = s})]]

\* The two placements step by step; a caller whose call has returned may go
\* on to a call that commits (a status edit of its book) or drop its
\* connection.
NextShelfRace ==
    \E c \in Conns :
        \/ PlaceBegin(c)
        \/ CountRead(c)
        \/ CountWrite(c)
        \/ call[c].res # "none" /\ BookUpdateStatus(c, Party(c), "available")
        \/ call[c].res # "none" /\ Disconnect(c)

SpecShelfRace == InitShelfRace /\ [][NextShelfRace]_vars

\* C9 as claimed: the shelf's count never exceeds its capacity, and once both
\* concurrent placements have returned, whoever reads the books of all the
\* placements that succeeded on the shelf reads a count grown by their number.
C9_NoLostUpdate ==
    /\ CountsInRange(DB) /\ \A c \in Conns : CountsInRange(View(c))
    /\ BothReturned =>
         \A c \in Conns :
           LET V == View(c)
           IN (\A o \in Winners : V.bk[Party(o)].ex /\ V.bk[Party(o)].shelf = RaceShelf)
              => V.sh[RaceShelf].cnt = Cardinality(Winners)

\* ------------------------------------------- type changes, one connection
\* BookRepository.update(book_id, {'book_type': ..., 'shelf_id': ...}) as the
\* shelf ledger runs issue it.
Retype(c, b, btype, shelf) ==
    BookUpdate(c, b, {"book_type", "shelf_id"}, btype, shelf, "available")

\* C11 as claimed: an update that makes a digital book physical on shelf s and
\* goes through leaves s's count one higher; one that makes a physical book on
\* shelf s digital, clearing its shelf, leaves it one lower; and counts that
\* equalled the physical books on every shelf before still do after.
C11_TypeChangeShiftsOneCount ==
    [][\A b \in Books, s \in Shelves :
         LET V == View(Client)
             W == View(Client)'
         IN /\ (/\ Retype(Client, b, "physical", s)
                /\ V.bk[b].ex /\ V.bk[b].btype = "digital"
                /\ last'.ok)
               => /\ W.sh[s].cnt = V.sh[s].cnt + 1
                  /\ CountsExact(V) => CountsExact(W)
            /\ (/\ Retype(Client, b, "digital", NULL)
                /\ V.bk[b].ex /\ V.bk[b].btype = "physical" /\ V.bk[b].shelf = s
                /\ last'.ok)
               => /\ W.sh[s].cnt = V.sh[s].cnt - 1
                  /\ CountsExact(V) => CountsExact(W)]_vars

\* ------------------------------------------- the loan limit, one connection
\* A library large enough for one student to reach max_loans: one book more
\* than the limit, all digital and available, and as many loan ids.
LimitBooks == 1..(max_loans + 1)

InitLimit ==
    /\ InitConn
    /\ shelves = [s \in Shelves |-> [cap |-> MaxCap, cnt |-> 0]]
    /\ books = [b \in LimitBooks |->
                  [ex |-> TRUE, btype |-> "digital", shelf |-> NULL, status |-> "available"]]
    /\ loans = [l \in LimitBooks |-> NoLoan]
    /\ students = [st \in Students |-> "active"]

\* The book a borrower takes next: the first one the connection reads as
\* available.
NextBook(V) ==
    {b \in DOMAIN V.bk : /\ V.bk[b].status = "available"
                         /\ \A o \in DOMAIN V.bk : o < b => V.bk[o].status # "available"}

\* The loans of student st that are out: loan_status active or overdue.
OpenLoansOfStudent(V, st) ==
    {l \in DOMAIN V.ln : V.ln[l].ex /\ V.ln[l].student = st /\ V.ln[l].status \in OpenLoan}

\* The student whose loans the run follows.
Borrower == CHOOSE st \in Students : \A o \in Students : st <= o

\* The loan the borrower brings back next: the one out longest.
OldestLoan(V) ==
    {l \in OpenLoansOfStudent(V, Borrower) :
        \A o \in OpenLoansOfStudent(V, Borrower) : l <= o}

\* Loans made to the borrower one after the other, some returned, some fallen
\* overdue.
NextLimit ==
    \/ \E b \in NextBook(View(Client)) : RepoCreateLoan(Client, b, Borrower, NULL, NULL)
    \/ \E l \in OldestLoan(View(Client)) : ReturnBook(Client, l, NULL)
    \/ UpdateOverdueLoans(Client)
    \/ Tick
    \/ Disconnect(Client)

SpecLimit == InitLimit /\ [][NextLimit]_vars

\* C12: a create_loan for an active student and an available book, on a
\* connection whose transaction is in order, is refused for the limit, makes
\* no loan and leaves the book available when the student has max_loans loans
\* active or overdue; with fewer it is not refused for the limit.
C12_LoanLimit ==
    [][\A b \in NextBook(View(Client)), st \in {Borrower} :
         LET V == View(Client)
             W == View(Client)'
         IN (/\ ~InFailedTx(Client)
             /\ RepoCreateLoan(Client, b, st, NULL, NULL)
             /\ V.bk[b].status = "available" /\ V.st[st] = "active")
            => IF Cardinality(OpenLoansOfStudent(V, st)) >= max_loans
               THEN /\ ~last'.ok /\ last'.why = "loan_limit_reached"
                    /\ \A l \in LimitBooks : W.ln[l].ex => V.ln[l].ex
                    /\ W.bk[b].status = "available"
               ELSE last'.why # "loan_limit_reached"]_vars

\* C12's case: a sixth loan was refused to a student whose five committed
\* loans are out, one of them overdue.
C12_Witness ==
    /\ last.op = "create_loan" /\ last.why = "loan_limit_reached"
    /\ \E st \in Students :
         /\ Cardinality(OpenLoansOfStudent(DB, st)) = max_loans
         /\ \E l \in OpenLoansOfStudent(DB, st) : loans[l].status = "overdue"

\* ------------------------------------------- who may borrow what
\* A create_loan call of connection c for book b and student st, through
\* either class.
CreateLoanFor(c, b, st) ==
    \E ld \in {NULL, today + 1}, est \in {NULL, today} :
        TableCreateLoan(c, b, st, ld, est) \/ RepoCreateLoan(c, b, st, ld, est)

\* C13 as claimed: a create_loan for a student who is not active fails, makes
\* no loan and leaves the book's status as the caller read it before; and a
\* loan comes to exist only while its student is active.
C13_InactiveStudentRejected ==
    [][\A c \in Conns :
         LET V == View(c)
             W == View(c)'
         IN /\ \A b \in Books, st \in Students :
                 (CreateLoanFor(c, b, st) /\ V.st[st] # "active")
                 => /\ ~last'.ok
                    /\ \A l \in LoanIds : W.ln[l].ex => V.ln[l].ex
                    /\ W.bk[b].status = V.bk[b].status
            /\ \A l \in LoanIds :
                 (~V.ln[l].ex /\ W.ln[l].ex) => V.st[W.ln[l].student] = "active"]_vars

\* C14 as claimed: a create_loan for a book that is loaned, in maintenance or
\* lost fails, makes no loan and leaves the book's status as the caller read
\* it before.
C14_UnavailableBookRejected ==
    [][\A c \in Conns, b \in Books :
         LET V == View(c)
             W == View(c)'
         IN (CreateLoanCall(c, b) /\ V.bk[b].status \in {"loaned", "maintenance", "lost"})
            => /\ ~last'.ok
               /\ \A l \in LoanIds : W.ln[l].ex => V.ln[l].ex
               /\ W.bk[b].status = V.bk[b].status]_vars

\* ------------------------------------------- due dates, one connection
\* Books of either type on the shelves; loans made without a due date through
\* both create_loan methods, on either day.
InitDue ==
    /\ InitConn
    /\ \E types \in [Books -> BookTypes] : books = Shelved(types)
    /\ shelves = [s \in Shelves |->
                    [cap |-> MaxCap, cnt |-> Cardinality({b \in Books : books[b].shelf = s})]]
    /\ loans = [l \in LoanIds |-> NoLoan]
    /\ students = [st \in Students |-> "active"]

NextDue ==
    \/ \E b \in Books, st \in Students : TableCreateLoan(Client, b, st, NULL, NULL)
    \/ \E b \in Books, st \in Students : RepoCreateLoan(Client, b, st, NULL, NULL)
    \/ UpdateOverdueLoans(Client)
    \/ Tick
    \/ Disconnect(Client)

SpecDue == InitDue /\ [][NextDue]_vars

\* C15 as claimed: a create_loan without a due date that goes through, by
\* either method, leaves a new loan whose estimated_return_date is its
\* loan_date + 7 for a digital book and its loan_date + 14 for a physical one.
C15_DefaultDueDate ==
    [][\A b \in Books, st \in Students :
         LET V == View(Client)
             W == View(Client)'
         IN (/\ \/ TableCreateLoan(Client, b, st, NULL, NULL)
                \/ RepoCreateLoan(Client, b, st, NULL, NULL)
             /\ last'.ok)
            => \E l \in LoanIds :
                 /\ ~V.ln[l].ex /\ W.ln[l].ex /\ W.ln[l].book = b
                 /\ W.ln[l].est = W.ln[l].loan_date
                                    + (IF V.bk[b].btype = "digital" THEN 7 ELSE 14)]_vars

\* ------------------------------------------- the life of a loan
\* The changes of loan_status the lending rules allow.
AllowedLoanChanges ==
    {<<"active", "overdue">>, <<"active", "returned">>, <<"active", "lost">>,
     <<"overdue", "returned">>, <<"overdue", "lost">>}

\* C16 as claimed: whatever the two connections call, a committed loan's
\* status changes only along active -> overdue, active -> returned, active ->
\* lost, overdue -> returned and overdue -> lost; a returned or lost loan keeps
\* its status.
C16_LoanStatusTransitions ==
    [][\A l \in LoanIds :
         (loans[l].ex /\ loans'[l].ex /\ loans[l].status # loans'[l].status)
         => <<loans[l].status, loans'[l].status>> \in AllowedLoanChanges]_vars

\* ------------------------------------------- the overdue sweep, two connections
\* Loans made and returned on either connection while the days pass, and the
\* sweep run through either class.
SweepCalls(c) ==
    \/ \E b \in Books : RepoCreateLoan(c, b, Borrower, NULL, NULL)
    \/ \E l \in LoanIds : ReturnBook(c, l, NULL)
    \/ UpdateOverdueLoans(c)
    \/ TableUpdateOverdueLoans(c)
    \/ Disconnect(c)

NextSweep ==
    \/ \E c \in Conns : SweepCalls(c)
    \/ Tick

SpecSweep == InitLoan /\ [][NextSweep]_vars

\* A sweep of connection c, through either class.
SweepCall(c) == UpdateOverdueLoans(c) \/ TableUpdateOverdueLoans(c)

\* C17: when a sweep has run on a connection, running it again there on the
\* same date goes through, marks no loan (reports 0) and leaves every table as
\* the first run left it.
C17_SweepIdempotent ==
    [][\A c \in Conns :
         (SweepCall(c) /\ last'.ok)
         => LET again == update_overdue_loans(View(c))'
            IN again.ok /\ again.rows = 0 /\ again.v = View(c)']_vars

\* C17's case: a sweep has just marked a loan overdue.
C17_Witness ==
    /\ last.op = "update_overdue_loans" /\ last.ok /\ last.rows > 0
    /\ \E l \in LoanIds : View(last.c).ln[l].ex /\ View(last.c).ln[l].status = "overdue"

\* ------------------------------------------- progress of concurrent calls
\* The two create_loan calls with the database doing its part: a statement
\* that can take its next step does take it.  What a caller does once its call
\* has returned (commit through another call, drop the connection, nothing)
\* is up to the caller.
FairLoanRace ==
    /\ SpecLoanRace
    /\ \A c \in Conns : WF_vars(LoanValidate(c)) /\ WF_vars(LoanInsert(c))

\* C18 as claimed: both concurrent calls eventually return, success or
\* failure, whatever the callers do after their own call has returned.
C18_EveryCallReturns == <>BothReturned

\* ------------------------------------------- two books, the global connection
\* Two callers share the connection of get_connection(): one deals with the
\* first book (loans asked by any student, returns, status edits), the other
\* with another book, and calls only what that book and its borrower allow:
\* a loan of it when it is available, the return of its loan when it is out.
OtherBook == CHOOSE b \in Books : b # FirstBook

LendOther ==
    /\ View(Client).bk[OtherBook].status = "available"
    /\ RepoCreateLoan(Client, OtherBook, Borrower, NULL, NULL)

ReturnOther(l) ==
    /\ View(Client).ln[l].ex /\ View(Client).ln[l].book = OtherBook
    /\ View(Client).ln[l].status \in OpenLoan
    /\ ReturnBook(Client, l, NULL)

NextShared ==
    \/ \E st \in Students : RepoCreateLoan(Client, FirstBook, st, NULL, NULL)
    \/ \E l \in LoanIds : View(Client).ln[l].book = FirstBook /\ ReturnBook(Client, l, NULL)
    \/ \E status \in BookStatuses : BookUpdateStatus(Client, FirstBook, status)
    \/ LendOther
    \/ \E l \in LoanIds : ReturnOther(l)
    \/ Tick

SpecShared == InitLoan /\ [][NextShared]_vars

\* C19 as claimed: whatever is going on with the first book, the calls on the
\* other book go through.
C19_OtherBookUnaffected ==
    [][(LendOther \/ \E l \in LoanIds : ReturnOther(l)) => last'.ok]_vars

\* ------------------------------------------- deletions, one connection
\* What students holds for a student_id whose row is gone.
NoStudent == "none"

\* The loans ls deleted one after the other (loans.student_id ... ON DELETE
\* CASCADE), trigger_loans_book_status running AFTER DELETE for each.
RECURSIVE DeleteLoans(_, _)
DeleteLoans(V, ls) ==
    IF ls = {} THEN Ok(V)
    ELSE LET l == CHOOSE x \in ls : \A y \in ls : x <= y
         IN Then(update_book_status_on_loan_change(
                     [V EXCEPT !.ln[l] = NoLoan], "DELETE", V.ln[l], NoLoan),
                 LAMBDA v1 : DeleteLoans(v1, ls \ {l}))

\* DELETE FROM students WHERE student_id = st: the row goes, and its loans
\* with it.
DeleteStudent(V, st) ==
    IF V.st[st] \notin StudentStatuses THEN OkRows(V, 0)
    ELSE OneRow(DeleteLoans([V EXCEPT !.st[st] = NoStudent],
                            {l \in DOMAIN V.ln : V.ln[l].ex /\ V.ln[l].student = st}))

\* StudentRepository.delete(student_id)
StudentDelete(c, st) ==
    Run(c, "student_delete", DeleteStudent(View(c), st), TRUE, TRUE)

\* Loans made and returned, books and students deleted.
NextDelete ==
    \/ \E b \in Books, st \in Students : RepoCreateLoan(Client, b, st, NULL, NULL)
    \/ \E l \in LoanIds : ReturnBook(Client, l, NULL)
    \/ UpdateOverdueLoans(Client)
    \/ \E b \in Books : BookDelete(Client, b)
    \/ \E st \in Students : StudentDelete(Client, st)
    \/ Disconnect(Client)

SpecDelete == InitDue /\ [][NextDelete]_vars

\* C20 as claimed: a loan that is in the committed loans table is still there
\* after every call, deletions of books and students included.
C20_LoansNeverRemoved ==
    [][\A l \in LoanIds : loans[l].ex => loans'[l].ex]_vars

\* ------------------------------------------- the lending desk, one connection
\* Every loan call on the first book with dates that pass and dates that do
\* not, while the other books change shelves: loans with a defaulted, a
\* same-day and an overlong due date, returns today and the day before,
\* renewals to a later and to a same-day date, status updates, sweeps.
DueDates == {NULL, today, today + max_loan_period + 1}
RenewDates == {today, today + default_loan_days}

NextDesk ==
    \/ \E est \in DueDates : RepoCreateLoan(Client, FirstBook, Borrower, NULL, est)
    \/ \E l \in LoanIds, rd \in ReturnDates : ReturnBook(Client, l, rd)
    \/ \E l \in LoanIds, d \in RenewDates :
           /\ View(Client).ln[l].renewals < MaxRenewals
           /\ RenewLoan(Client, l, d)
    \/ \E l \in LoanIds, status \in LoanStatuses : LoanUpdateStatus(Client, l, status)
    \/ UpdateOverdueLoans(Client)
    \/ \E b \in Books \ {FirstBook}, s \in Shelves : MoveToShelf(Client, b, s)
    \/ Tick
    \/ Disconnect(Client)

SpecDesk == InitLoan /\ [][NextDesk]_vars

\* Where the books are and what the shelves count.
Placement(V) ==
    [shelf |-> [b \in DOMAIN V.bk |-> V.bk[b].shelf],
     btype |-> [b \in DOMAIN V.bk |-> V.bk[b].btype],
     count |-> [s \in DOMAIN V.sh |-> V.sh[s].cnt]]

LoanOps == {"create_loan", "return_book", "renew_loan", "loan_update_status",
            "update_overdue_loans"}

\* C21 as claimed: marking an active or overdue loan lost, on a connection
\* whose transaction is in order, goes through and leaves the loan lost and
\* its book lost; and no loan call, whatever its result, changes a book's
\* shelf_id or book_type or a shelf's current_book_count.
C21_MarkLostKeepsPlacement ==
    [][LET V == View(Client)
           W == View(Client)'
       IN /\ \A l \in LoanIds :
               (/\ ~InFailedTx(Client)
                /\ V.ln[l].ex /\ V.ln[l].status \in OpenLoan
                /\ LoanUpdateStatus(Client, l, "lost"))
               => /\ last'.ok
                  /\ W.ln[l].status = "lost"
                  /\ W.bk[V.ln[l].book].status = "lost"
          /\ (last' # last /\ last'.op \in LoanOps) => Placement(W) = Placement(V)]_vars

\* C22 as claimed: a book that is lost in the committed table (at the desk
\* only marking its loan lost makes it so) is still lost after every loan
\* call.
C22_LostBookStaysLost ==
    [][\A b \in Books :
         (books[b].status = "lost" /\ last' # last /\ last'.op \in LoanOps)
         => books'[b].status = "lost"]_vars

\* ------------------------------------------- repair of the shelf counts
\* ShelfRepository.validate_capacity_consistency(): the shelves whose
\* current_book_count differs from the COUNT of the physical books joined to
\* them.
validate_capacity_consistency(V) ==
    {s \in DOMAIN V.sh : ActualBookCount(V, s) # V.sh[s].cnt}

\* C23 as claimed: a fix_capacity_counts call on a connection whose
\* transaction is in order, whatever drift the counts are in, completes and
\* leaves every shelf's count equal to the physical books on it, so that
\* validate_capacity_consistency returns no shelf.
C23_RepairMakesCountsExact ==
    [][(~InFailedTx(Client) /\ FixCapacityCounts(Client))
       => /\ last'.ok
          /\ CountsExact(DB') /\ CountsExact(View(Client)')
          /\ validate_capacity_consistency(View(Client)') = {}]_vars

\* C24 as claimed: the number fix_capacity_counts returns is the number of
\* shelves whose count was off before the call (none off, 0 returned).
C24_RepairReportsCorrected ==
    [][(~InFailedTx(Client) /\ FixCapacityCounts(Client) /\ last'.ok)
       => last'.rows = Cardinality(validate_capacity_consistency(View(Client)))]_vars

\* ------------------------------------------- repair against a placement
\* Connection A has just been handed the placement of its book on RaceShelf
\* (a creation, or a move from FromShelf, which is a removal there),
\* connection B a fix_capacity_counts; RaceShelf holds no book and its count
\* is exact or one too high.
InitRepairRace ==
    /\ today = 1
    /\ conn = [c \in Conns |-> [failed |-> FALSE, w |-> NoWrites]]
    /\ last = Returned("A", "connect", TRUE, "", 0)
    /\ loans = [l \in LoanIds |-> NoLoan]
    /\ students = [st \in Students |-> "active"]
    /\ \E how \in {"book_create", "move_to_shelf"}, cap \in 1..MaxCap, drift \in 0..1 :
         /\ call = [c \in Conns |-> IF c = "A" THEN Issued(how, Party(c), RaceShelf)
                                    ELSE Issued("fix_capacity_counts", 0, 0)]
         /\ books = [b \in Books |->
                       IF b = Party("A") /\ how = "move_to_shelf"
                       THEN [ex |-> TRUE, btype |-> "physical", shelf |-> FromShelf,
                             status |-> "available"]
                       ELSE NoBook]
         /\ shelves = [s \in Shelves |->
                         IF s = RaceShelf THEN [cap |-> cap, cnt |-> IF drift < cap THEN drift ELSE 0]
                         ELSE [cap |-> MaxCap,
                               cnt |-> Cardinality({b \in Books : books[b].ex /\ books[b].shelf = s})]]

\* The two calls step by step; a caller whose call has returned may go on to
\* a call that commits (a status edit of its book) or drop its connection.
NextRepairRace ==
    \E c \in Conns :
        \/ PlaceBegin(c)
        \/ CountRead(c)
        \/ CountWrite(c)
        \/ FixBegin(c)
        \/ FixWrite(c)
        \/ call[c].res # "none" /\ BookUpdateStatus(c, Party(c), "available")
        \/ call[c].res # "none" /\ Disconnect(c)

SpecRepairRace == InitRepairRace /\ [][NextRepairRace]_vars

\* C25 as claimed: once the placement and the repair have both completed,
\* every shelf's count equals the number of physical books on it, in the
\* committed tables and in what either connection reads.
C25_RepairSerialized ==
    (BothReturned /\ Winners = Conns)
    => CountsExact(DB) /\ \A c \in Conns : CountsExact(View(c))

\* ------------------------------------------- book type and shelf
DigitalIffNoShelf(V) ==
    \A b \in DOMAIN V.bk : V.bk[b].ex => (V.bk[b].btype = "digital" <=> V.bk[b].shelf = NULL)

\* C26 as claimed: after every call a book is digital exactly when it has no
\* shelf, and a creation or update refused by chk_physical_book_has_shelf or
\* chk_digital_book_no_shelf leaves the books and the shelf counts as the
\* caller read them before.
C26_DigitalIffNoShelf ==
    [][LET V == View(Client)
           W == View(Client)'
       IN /\ DigitalIffNoShelf(W) /\ DigitalIffNoShelf(DB')
          /\ (/\ last' # last
              /\ last'.op \in {"book_create", "book_update"}
              /\ last'.why = "books_check_violation")
             => W.bk = V.bk /\ W.sh = V.sh]_vars

\* ------------------------------------------- the dates and status of a loan
DueDateInRange(V) ==
    \A l \in DOMAIN V.ln :
        V.ln[l].ex => /\ V.ln[l].est > V.ln[l].loan_date
                      /\ V.ln[l].est <= V.ln[l].loan_date + 365

\* C27 as claimed: after every call each loan's estimated_return_date is after
\* its loan_date and at most 365 days after it, and a create_loan or
\* renew_loan refused by the CHECK constraints leaves the loans and the books
\* as the caller read them before.
C27_DueDateInRange ==
    [][LET V == View(Client)
           W == View(Client)'
       IN /\ DueDateInRange(W) /\ DueDateInRange(DB')
          /\ (/\ last' # last
              /\ last'.op \in {"create_loan", "renew_loan"}
              /\ last'.why = "loans_check_violation")
             => W.ln = V.ln /\ W.bk = V.bk]_vars

ReturnDateMatchesStatus(V) ==
    \A l \in DOMAIN V.ln :
        V.ln[l].ex => /\ V.ln[l].status = "returned" => V.ln[l].ret # NULL
                      /\ V.ln[l].status = "active" => V.ln[l].ret = NULL

\* C28: whatever loans, returns, renewals, sweeps and status updates have
\* run, every returned loan has an actual_return_date and every active loan
\* has none, in the committed table and in what a connection reads.
C28_ReturnDateMatchesStatus ==
    ReturnDateMatchesStatus(DB) /\ \A c \in Conns : ReturnDateMatchesStatus(View(c))

\* C28's case: a status update was refused for the return date (a loan set to
\* returned without one, or a returned loan set back to active) while a
\* returned loan with its date is on record.
C28_Witness ==
    /\ last.op = "loan_update_status" /\ last.why = "loans_check_violation"
    /\ \E l \in LoanIds : loans[l].ex /\ loans[l].status = "returned" /\ loans[l].ret # NULL


\* C29 as claimed: return_book on a loan that is returned, lost or not there,
\* or with a return date before the loan date, reports failure and leaves
\* every loan's status and actual_return_date and every book's status as they
\* were; on an active or overdue loan, with the transaction in order, it
\* leaves the loan returned with the given date (today when none is given).
C29_ReturnBookContract ==
    [][\A l \in LoanIds, rd \in ReturnDates :
         LET V == View(Client)
             W == View(Client)'
             return_date == IF rd = NULL THEN today ELSE rd
             open == V.ln[l].ex /\ V.ln[l].status \in OpenLoan
         IN ReturnBook(Client, l, rd) =>
              /\ (~open \/ return_date < V.ln[l].loan_date)
                    => /\ ~last'.ok
                       /\ \A k \in LoanIds : /\ W.ln[k].ex = V.ln[k].ex
                                             /\ W.ln[k].status = V.ln[k].status
                                             /\ W.ln[k].ret = V.ln[k].ret
                       /\ \A b \in Books : W.bk[b].status = V.bk[b].status
              /\ (open /\ return_date >= V.ln[l].loan_date /\ ~InFailedTx(Client))
                    => /\ last'.ok
                       /\ W.ln[l].status = "returned"
                       /\ W.ln[l].ret = return_date]_vars


\* C30: renew_loan on an active loan, with a date the loan period allows and
\* the transaction in order, goes through, adds exactly one to the loan's
\* renewal_count and replaces its estimated_return_date, the rest of the loan
\* and every book staying as they were; renew_loan on an overdue, returned or
\* lost loan reports failure and leaves every table as the caller read it.
C30_RenewLoanContract ==
    [][\A l \in LoanIds, d \in RenewDates :
         LET V == View(Client)
             W == View(Client)'
         IN (RenewLoan(Client, l, d) /\ V.ln[l].ex) =>
              /\ (/\ V.ln[l].status = "active"
                  /\ ~InFailedTx(Client)
                  /\ d > V.ln[l].loan_date
                  /\ d <= V.ln[l].loan_date + max_loan_period)
                    => /\ last'.ok
                       /\ W.ln = [V.ln EXCEPT ![l].renewals = V.ln[l].renewals + 1,
                                              ![l].est = d]
                       /\ W.bk = V.bk
              /\ V.ln[l].status # "active"
                    => ~last'.ok /\ W = V]_vars

\* C30's case: a renewal has just gone through and the loan, still active,
\* counts it.
C30_Witness ==
    /\ last.op = "renew_loan" /\ last.ok
    /\ \E l \in LoanIds : /\ loans[l].ex /\ loans[l].status = "active"
                          /\ loans[l].renewals = 1
                          /\ loans[l].est = today + default_loan_days


\* ------------------------------------------- what a sweep does
\* The loans of V the sweep is for: active and past due.
PastDue(V) ==
    {l \in DOMAIN V.ln : V.ln[l].ex /\ V.ln[l].status = "active" /\ V.ln[l].est < today}

\* C31: a sweep, through either class, on a connection whose transaction is in
\* order, goes through and leaves no active loan past due; the value it
\* returns is the number of loans it took from active to overdue; every other
\* loan and every book are as the caller read them before.
C31_SweepMarksPastDue ==
    [][\A c \in Conns :
         LET V == View(c)
             W == View(c)'
         IN (SweepCall(c) /\ ~InFailedTx(c))
            => /\ last'.ok
               /\ PastDue(W) = {}
               /\ last'.rows = Cardinality(PastDue(V))
               /\ W.ln = [l \in DOMAIN V.ln |->
                            IF l \in PastDue(V)
                            THEN [V.ln[l] EXCEPT !.status = "overdue"] ELSE V.ln[l]]
               /\ W.bk = V.bk]_vars

\* C31's case: a sweep has just marked one loan overdue and left another,
\* active and not yet due, alone.
C31_Witness ==
    /\ last.op = "update_overdue_loans" /\ last.ok /\ last.rows = 1
    /\ \E l \in LoanIds : loans[l].ex /\ loans[l].status = "overdue"
    /\ \E l \in LoanIds : loans[l].ex /\ loans[l].status = "active" /\ loans[l].est >= today


\* C32 as claimed: update_book_count(shelf, delta) on a known shelf with
\* 0 <= count + delta <= total_capacity, the transaction in order, goes
\* through and sets that shelf's count to count + delta and nothing else;
\* otherwise (negative result, capacity exceeded, unknown shelf) it reports
\* failure and every shelf's count is as the caller read it before.
C32_UpdateBookCountContract ==
    [][\A s \in ShelfArgs, d \in Deltas :
         LET V == View(Client)
             W == View(Client)'
             within == /\ s \in Shelves
                       /\ 0 <= V.sh[s].cnt + d
                       /\ V.sh[s].cnt + d <= V.sh[s].cap
         IN UpdateBookCount(Client, s, d) =>
              /\ (within /\ ~InFailedTx(Client))
                    => /\ last'.ok
                       /\ W.sh = [V.sh EXCEPT ![s].cnt = V.sh[s].cnt + d]
              /\ ~within
                    => /\ ~last'.ok
                       /\ \A t \in Shelves : W.sh[t].cnt = V.sh[t].cnt]_vars


\* ------------------------------------------- moves and the loan state
\* The view V with book b in another status and no loan on record.
WithLoanState(V, b, status) ==
    [V EXCEPT !.bk[b].status = status, !.ln = [l \in DOMAIN V.ln |-> NoLoan]]

\* The move of b to shelf comes out on V as it does with b in any status and
\* no loan on record: same outcome, same shelf for the book, same counts.
SameMoveWhateverLoans(V, b, shelf) ==
    \A status \in BookStatuses :
        LET r == MoveStatement(V, b, shelf)
            q == MoveStatement(WithLoanState(V, b, status), b, shelf)
        IN /\ r.ok = q.ok /\ r.why = q.why /\ r.rows = q.rows
           /\ r.v.sh = q.v.sh
           /\ r.v.bk[b].shelf = q.v.bk[b].shelf

\* Loans made, returned and reported lost and book statuses edited on one
\* connection while the books are moved, to the shelves there are and to one
\* there is not.
NextMove ==
    \/ \E b \in Books : RepoCreateLoan(Client, b, Borrower, NULL, NULL)
    \/ \E l \in LoanIds : ReturnBook(Client, l, NULL)
    \/ \E l \in LoanIds : LoanUpdateStatus(Client, l, "lost")
    \/ \E b \in Books, status \in BookStatuses : BookUpdateStatus(Client, b, status)
    \/ \E b \in Books, s \in ShelfArgs : MoveToShelf(Client, b, s)
    \/ Disconnect(Client)

SpecMove == InitLoan /\ [][NextMove]_vars

\* C33 as claimed: a move of a book to a shelf comes out the same, and does
\* the same to the shelf counts, whatever the book's status and the loans on
\* record, and after it every book's status and every loan are as the caller
\* read them before.
C33_MoveIgnoresLoanState ==
    [][\A b \in Books, s \in ShelfArgs :
         LET V == View(Client)
             W == View(Client)'
         IN MoveToShelf(Client, b, s) =>
              /\ SameMoveWhateverLoans(V, b, s)
              /\ W.ln = V.ln
              /\ \A k \in Books : W.bk[k].status = V.bk[k].status]_vars


\* ------------------------------------------- validation before the store
\* The table managers handed good and bad input on one connection, between
\* loans made through the repository, returns, and the days passing.
NextValidate ==
    \/ \E b \in Books \cup {NULL}, st \in {Borrower, NULL} :
         \E ld \in {NULL, today + 1}, est \in DueDates :
             TableCreateLoan(Client, b, st, ld, est)
    \/ \E b \in Books, ld \in {NULL, today + 1} :
           RepoCreateLoan(Client, b, Borrower, ld, NULL)
    \/ \E b \in Books, status \in StatusArgs : TableUpdateBookStatus(Client, b, status)
    \/ \E l \in LoanIds : ReturnBook(Client, l, NULL)
    \/ Tick
    \/ Disconnect(Client)

SpecValidate == InitLoan /\ [][NextValidate]_vars

\* No statement went to the database: the tables and the connection's
\* transaction are what they were.
NoStatement == UNCHANGED <<shelves, books, students, loans, conn>>

\* C34: LoansTableManager.create_loan with no book, no student, an
\* estimated_return_date not after the loan date or more than 365 days after
\* it, and BooksTableManager.update_book_status with a status that is none of
\* the four, report failure and send no statement: the tables and the
\* connection's open transaction stay as they were.
C34_InvalidInputNoStatement ==
    [][/\ \A b \in Books \cup {NULL}, st \in {Borrower, NULL} :
            \A ld \in {NULL, today + 1}, est \in DueDates :
               LET loan_date == IF ld = NULL THEN today ELSE ld
               IN (/\ TableCreateLoan(Client, b, st, ld, est)
                   /\ \/ b = NULL \/ st = NULL
                      \/ est # NULL /\ (est <= loan_date \/ est - loan_date > 365))
                  => ~last'.ok /\ NoStatement
       /\ \A b \in Books, status \in StatusArgs \ BookStatuses :
              TableUpdateBookStatus(Client, b, status) => ~last'.ok /\ NoStatement]_vars

\* C34's case: a create_loan was turned down by the validation while the
\* connection held a loan not yet committed, and holds it still.
C34_Witness ==
    /\ last.op = "create_loan" /\ last.why = "validation_errors"
    /\ DOMAIN conn[Client].w.ln # {}


\* A create_loan call through either class.
EitherCreateLoan(c, b, st, ld, est) ==
    TableCreateLoan(c, b, st, ld, est) \/ (est = NULL /\ RepoCreateLoan(c, b, st, ld, NULL))

\* C35: a create_loan call, through LoansTableManager or LoanRepository, with
\* a loan_date after the current date reports failure and the caller reads no
\* loan that was not there before; a call with no loan_date that goes
\* through leaves a new loan dated the current date.
C35_LoanDateNotFuture ==
    [][\A b \in Books, ld \in {NULL, today + 1}, est \in DueDates :
         LET V == View(Client)
             W == View(Client)'
             created == {l \in LoanIds : W.ln[l].ex /\ ~V.ln[l].ex}
         IN EitherCreateLoan(Client, b, Borrower, ld, est) =>
              /\ (ld # NULL /\ ld > today) => ~last'.ok /\ created = {}
              /\ (ld = NULL /\ last'.ok)
                    => /\ Cardinality(created) = 1
                       /\ \A l \in created : W.ln[l].loan_date = today]_vars

\* C35's case: the table has turned down a loan dated tomorrow that the
\* repository handed it, with a loan on record.
C35_Witness ==
    /\ last.op = "create_loan" /\ last.why = "loans_check_violation"
    /\ \E l \in LoanIds : loans[l].ex /\ loans[l].loan_date <= today


\* ------------------------------------------- status writes on a full shelf
\* The calls that write a book's status and neither its shelf nor its type.
StatusOps == {"book_update_status", "create_loan", "return_book", "loan_update_status"}

\* C36 as claimed: a call that writes only a book's status (update_status,
\* and the loans trigger on create_loan, return_book and a status update to
\* lost) is never turned down for the capacity of the book's shelf.
C36_StatusWriteIgnoresCapacity ==
    [][(last' # last /\ last'.op \in StatusOps) => last'.why # "shelf_full"]_vars


\* ------------------------------------------- what a connection leaves open
CreateOps == {"create_loan", "book_create"}

\* C37 as claimed: when a create (create_loan, BookRepository.create) has
\* returned an id, the row and what its triggers wrote are committed: the
\* tables hold all that the creating connection reads.
C37_CreateIsCommitted ==
    [][\A c \in Conns :
         (last' # last /\ last'.c = c /\ last'.op \in CreateOps /\ last'.ok)
         => View(c)' = DB']_vars

\* C38 as claimed: no call fails for the sole reason that an earlier call on
\* its connection was rejected.
C38_RejectionLeavesConnectionUsable ==
    [][last' # last => last'.why # "in_failed_transaction"]_vars


\* ------------------------------------------- the loan limit, two connections
\* The book the second caller takes next: the last one its connection reads
\* as available, so that the two callers ask for different books.
LastBook(V) ==
    {b \in DOMAIN V.bk : /\ V.bk[b].status = "available"
                         /\ \A o \in DOMAIN V.bk : o > b => V.bk[o].status # "available"}

BookFor(c) == IF c = Client THEN NextBook(View(c)) ELSE LastBook(View(c))

\* The borrower's loans made through two connections at once, each taking
\* books from its end of the catalogue, each committing when it next runs a
\* sweep.
NextLimitRace ==
    \E c \in Conns :
        \/ \E b \in BookFor(c) : RepoCreateLoan(c, b, Borrower, NULL, NULL)
        \/ UpdateOverdueLoans(c)
        \/ Disconnect(c)

SpecLimitRace == InitLimit /\ [][NextLimitRace]_vars

\* C39 as claimed: in every state, no student has more than max_loans loans
\* active or overdue on record.
C39_LoanLimitAlways ==
    \A st \in Students : Cardinality(OpenLoansOfStudent(DB, st)) <= max_loans


\* ------------------------------------------- deleting a shelf
\* ShelfRepository.delete(shelf_id), first statement: SELECT
\* current_book_count FROM shelves WHERE shelf_id = %s through execute_query;
\* no row, or a count above 0, returns False; else the call goes on to its
\* DELETE.
DeleteBegin(c, s) ==
    /\ Idle(c)
    /\ LET V == View(c)
           refused(why) == /\ last' = Returned(c, "shelf_delete", FALSE, why, 0)
                           /\ UNCHANGED call
       IN /\ IF InFailedTx(c) THEN refused("in_failed_transaction")
             ELSE IF ~HasShelf(V, s) THEN refused("shelf_not_found")
             ELSE IF V.sh[s].cnt > 0 THEN refused("contains_books")
             ELSE /\ call' = [call EXCEPT ![c] =
                                 [Issued("shelf_delete", 0, s) EXCEPT !.pc = "write"]]
                  /\ UNCHANGED last
          /\ UnchangedData
          /\ UNCHANGED <<conn, today>>

\* ShelfRepository.delete, second statement: DELETE FROM shelves WHERE shelf_id
\* = %s through execute_command (it waits while another open transaction has
\* written the row), returning rows_affected > 0.
DeleteWrite(c) ==
    /\ call[c].pc = "write" /\ call[c].op = "shelf_delete"
    /\ LET r == DeleteShelf(View(c), call[c].arg)
       IN ~MustWait(c, r) /\ Return(c, r, TRUE, TRUE)

\* Books placed and moved, counts adjusted by hand and shelves deleted on two
\* connections, the statements of a delete apart from each other.
ShelfCalls(c) ==
    \/ \E b \in Books, s \in Shelves : BookCreate(c, b, "physical", s, "available")
    \/ \E b \in Books, s \in Shelves : MoveToShelf(c, b, s)
    \/ \E s \in Shelves : UpdateBookCount(c, s, -1)
    \/ \E s \in ShelfArgs : DeleteBegin(c, s)
    \/ DeleteWrite(c)
    \/ Disconnect(c)

NextShelfDelete == \E c \in Conns : ShelfCalls(c)

SpecShelfDelete == InitPlace /\ [][NextShelfDelete]_vars

\* Every physical book stands on a shelf that has its row.
BooksHaveShelves(V) ==
    \A b \in DOMAIN V.bk :
        (V.bk[b].ex /\ V.bk[b].btype = "physical") => HasShelf(V, V.bk[b].shelf)

\* C40 as claimed: no shelf that a physical book references is ever deleted,
\* in the committed tables and in what each connection reads; a delete that
\* goes through removes a shelf no book of the caller's view stood on; and a
\* refused delete returns False with the shelves and books as the caller read
\* them before.
C40_DeleteOnlyEmptyShelf ==
    [][/\ BooksHaveShelves(DB') /\ \A c \in Conns : BooksHaveShelves(View(c)')
       /\ \A c \in Conns :
            LET V == View(c)
                W == View(c)'
            IN (last' # last /\ last'.c = c /\ last'.op = "shelf_delete")
               => IF last'.ok
                  THEN \A s \in ShelfRows(V) \ ShelfRows(W) : BooksOn(V, s) = 0
                  ELSE W.sh = V.sh /\ W.bk = V.bk]_vars

=============================================================================
